---- MODULE Spec2Model ----
\* A model of smoker.server.pluginmanager: the PluginManager's configuration
\* resolution, plugin registry, forced-run ledger, shared semaphore and
\* shutdown, as a state machine.
EXTENDS Integers, Sequences, FiniteSets, TLC

VARIABLES
    conf_plugins,     \* self.conf_plugins: name -> options (dict)
    conf_actions,     \* self.conf_actions: None or dict
    conf_templates,   \* self.conf_templates: None or dict
    ctor_fails,       \* input: names whose Plugin(...) constructor raises
    conf_given,       \* the plugins argument as the constructor received it
    mgr_no,           \* number of PluginManager(...) calls made so far
    loaded_by,        \* per PluginManager(...) call: the entries it loaded
    calls_before,     \* add_process calls made before the newest manager
    ap,               \* per caller thread: its add_process call in progress
    mgr,              \* position of the manager: "new", "ready", "failed"
    exc,              \* exception raised by the constructor ("" when none)
    attempted,        \* entries the loop of load_plugins has reached
    stopping,         \* self.stopping
    plugins,          \* PluginManager.plugins: name -> Plugin object
    processes,        \* PluginManager.processes: list, index 0 is None
    force,            \* plugin.force of every Plugin object
    forced_result,    \* plugin.forced_result of every Plugin object
    life,             \* process state of every Plugin: "new", "alive", "dead"
    terminated,       \* number of terminate() calls every Plugin received
    probe,            \* run loop of every Plugin: "idle", "probe", "forced"
    sem,              \* free units of every semaphore (there is one)
    stop_pc,          \* position of stop(): "idle", "poll", "sleep", "done"
    blocking,         \* argument of the stop() call in progress
    plugins_left,     \* local of stop(): names seen alive in the last pass
    plugins_left_cnt, \* local of stop()
    polls,            \* number of polling passes stop() has made, up to MaxPolls
    logged,           \* number of progress lines stop() has logged
    handles,          \* per add_process call, in order: the id, 0 if it raised
    ret               \* outcome of the last add_process call

vars == << conf_plugins, conf_actions, conf_templates, ctor_fails, conf_given,
           mgr_no, loaded_by, calls_before, ap, mgr, exc,
           attempted, stopping, plugins, processes, force, forced_result,
           life, terminated, probe, sem, stop_pc, blocking, plugins_left,
           plugins_left_cnt, polls, logged, handles, ret >>

confVars == << conf_actions, conf_templates, ctor_fails, conf_given >>
instVars == << mgr_no, loaded_by, calls_before >>
callVars == << ap >>
stopVars == << stop_pc, blocking, plugins_left, plugins_left_cnt, polls, logged >>
gateVars == << probe, sem >>
plugVars == << force, forced_result, life, terminated >>

----------------------------------------------------------------------------
\* Values.  Every scalar of a configuration is a string; a dict is a function
\* from a finite set of keys; None-or-dict is a record with the flag isdict.

EmptyDict == [k \in {} |-> ""]

None == [isdict |-> FALSE, d |-> EmptyDict]

Some(d) == [isdict |-> TRUE, d |-> d]

\* dict(base, **over): the keys of both, over winning.
dict_reversed(base, over) ==
    [k \in DOMAIN base \cup DOMAIN over |->
        IF k \in DOMAIN base THEN base[k] ELSE over[k]]

dict_merge(base, over) ==
    [k \in DOMAIN base \cup DOMAIN over |->
        IF k \in DOMAIN over THEN over[k] ELSE base[k]]

\* dict with d[key] = value assigned.
dict_set(d, key, value) ==
    [k \in DOMAIN d \cup {key} |-> IF k = key THEN value ELSE d[k]]

NPROCESSORS_ONLN == 1

semaphore_count_wrong == NPROCESSORS_ONLN + 3

semaphore_count == NPROCESSORS_ONLN + 2

----------------------------------------------------------------------------
\* Configuration resolution.

get_template(name) ==
    IF ~conf_templates.isdict
    THEN [exc |-> "NoTemplatesConfigured", val |-> EmptyDict]
    ELSE IF name \notin DOMAIN conf_templates.d
    THEN [exc |-> "TemplateNotFound", val |-> EmptyDict]
    ELSE [exc |-> "", val |-> conf_templates.d[name]]

get_action(name) ==
    IF ~conf_actions.isdict
    THEN [exc |-> "NoActionsConfigured", val |-> ""]
    ELSE IF name \notin DOMAIN conf_actions.d
    THEN [exc |-> "ActionNotFound", val |-> ""]
    ELSE [exc |-> "", val |-> conf_actions.d[name]]

\* Plugin(self, plugin, params, semaphore): the object, or the exception of
\* a constructor that rejects its parameters.
Plugin(plugin, params, semaphore) ==
    IF plugin \in ctor_fails
    THEN [exc |-> "AssertionError", name |-> plugin,
          params |-> EmptyDict, semaphore |-> semaphore]
    ELSE [exc |-> "", name |-> plugin,
          params |-> params, semaphore |-> semaphore]

\* load_plugin(plugin, options): exc, the Plugin object built, and options as
\* the call leaves it (options['Action'] is assigned in place).
load_plugin(plugin, options) ==
    LET base      == get_template("BasePlugin")
        template0 == IF base.exc = "" THEN base.val ELSE EmptyDict
        hasT      == "Template" \in DOMAIN options
        custom    == get_template(options["Template"])
        template  == IF hasT THEN dict_merge(template0, custom.val) ELSE template0
        hasA      == "Action" \in DOMAIN options
        action    == get_action(options["Action"])
        options1  == IF hasA THEN dict_set(options, "Action", action.val) ELSE options
        params    == dict_merge(template, options1)
        obj       == Plugin(plugin, params, "semaphore")
    IN  IF hasT /\ custom.exc # ""
        THEN [exc |-> custom.exc, obj |-> obj, options |-> options]
        ELSE IF hasA /\ action.exc # ""
        THEN [exc |-> action.exc, obj |-> obj, options |-> options]
        ELSE [exc |-> obj.exc, obj |-> obj, options |-> options1]

\* The test of load_plugins that skips an entry.
is_disabled_never(options) == FALSE

is_disabled(options) ==
    "Enabled" \in DOMAIN options /\ options["Enabled"] = "False"

\* The test of load_plugins for the required template.
base_missing_ignored(r) == FALSE

base_missing(r) == r.exc \in {"TemplateNotFound", "NoTemplatesConfigured"}

\* The test of load_plugins after its loop: len(self.plugins) == 0.
no_running_never(reg) == FALSE

no_running(reg) == Cardinality(DOMAIN reg) = 0

\* load_plugins(): the exception it raises, the registry, the entries its
\* loop reached and the configuration as the loop leaves it.
load_plugins ==
    IF base_missing(get_template("BasePlugin"))
    THEN [exc |-> "BasePluginTemplateNotFound", plugins |-> plugins,
          attempted |-> {}, conf_plugins |-> conf_plugins, loaded |-> {}]
    ELSE
      LET tried  == {n \in DOMAIN conf_plugins : ~is_disabled(conf_plugins[n])}
          res    == [n \in tried |-> load_plugin(n, conf_plugins[n])]
          loaded == {n \in tried : res[n].exc = ""}
          reg    == [n \in DOMAIN plugins \cup loaded |->
                       IF n \in loaded THEN res[n].obj ELSE plugins[n]]
          conf   == [n \in DOMAIN conf_plugins |->
                       IF n \in tried THEN res[n].options ELSE conf_plugins[n]]
      IN  [exc |-> IF no_running(reg) THEN "NoRunningPlugins" ELSE "",
           plugins |-> reg, attempted |-> DOMAIN conf_plugins,
           conf_plugins |-> conf, loaded |-> loaded]

----------------------------------------------------------------------------
\* Registry queries.

\* The order in which a dict of the given keys is iterated: fixed, arbitrary.
RECURSIVE iter_order(_)
iter_order(keys) ==
    IF keys = {} THEN << >>
    ELSE LET n == CHOOSE x \in keys : TRUE
         IN  <<n>> \o iter_order(keys \ {n})

\* The test of get_plugins on one plugin.
filter_match_key_only(plugin, key, value) == key \in DOMAIN plugin.params

filter_match(plugin, key, value) ==
    key \in DOMAIN plugin.params /\ plugin.params[key] = value

\* get_plugins(filter): the list of matching plugins (by name), or with a
\* false filter the dict self.plugins itself.
get_plugins(filter) ==
    IF DOMAIN filter # {}
    THEN LET key   == CHOOSE k \in DOMAIN filter : TRUE
             value == filter[key]
         IN  [isdict |-> FALSE,
              list |-> SelectSeq(iter_order(DOMAIN plugins),
                           LAMBDA n : filter_match(plugins[n], key, value))]
    ELSE [isdict |-> TRUE, list |-> iter_order(DOMAIN plugins)]

get_plugin(name) ==
    IF name \in DOMAIN plugins
    THEN [exc |-> "", val |-> name]
    ELSE [exc |-> "NoSuchPlugin", val |-> ""]

----------------------------------------------------------------------------
\* The ledger.  processes[1] is index 0 of the list, the None that fills it.

NoneProcess == [none |-> TRUE, plugins |-> << >>]

\* The test of add_process that rejects an empty list.
no_plugins_never(plugins_list) == FALSE

no_plugins(plugins_list) == Len(plugins_list) = 0

\* self.processes.append(process).
append_process_reset(procs, process) == << procs[1], process >>

append_process(procs, process) == Append(procs, process)

\* id = len(self.processes)-1, after the append.
new_id_len(procs) == Len(procs)

new_id(procs) == Len(procs) - 1

\* The plugins whose force and forced_result add_process assigns.
forced_first_only(plugins_list) == {plugins_list[1]}

forced_by(plugins_list) == {plugins_list[i] : i \in 1..Len(plugins_list)}

\* A resolution that passes over the names it does not know.
resolve_lenient(names, filter) ==
    LET known   == SelectSeq(names, LAMBDA x : get_plugin(x).exc = "")
        byname  == [i \in 1..Len(known) |-> get_plugin(known[i]).val]
        byfilt  == IF DOMAIN filter # {} THEN get_plugins(filter).list ELSE << >>
        plist   == byname \o byfilt
    IN  IF no_plugins(plist)
        THEN [exc |-> "NoPluginsFound", plugins_list |-> << >>]
        ELSE [exc |-> "", plugins_list |-> plist]

\* The part of add_process before the append: the exception, and plugins_list.
resolve(names, filter) ==
    LET unknown == {i \in 1..Len(names) : get_plugin(names[i]).exc # ""}
        byname  == [i \in 1..Len(names) |-> get_plugin(names[i]).val]
        byfilt  == IF DOMAIN filter # {} THEN get_plugins(filter).list ELSE << >>
        plist   == byname \o byfilt
    IN  IF Len(names) > 0 /\ unknown # {}
        THEN [exc |-> "NoSuchPlugin", plugins_list |-> << >>]
        ELSE IF no_plugins(plist)
        THEN [exc |-> "NoPluginsFound", plugins_list |-> << >>]
        ELSE [exc |-> "", plugins_list |-> plist]

\* self.processes[id], with the indexing of a Python list.
get_process(id) ==
    LET n == Len(processes)
    IN  IF id >= 0 /\ id < n
        THEN [exc |-> "", val |-> processes[id + 1]]
        ELSE IF id < 0 /\ id >= -n
        THEN [exc |-> "", val |-> processes[n + id + 1]]
        ELSE [exc |-> "IndexError", val |-> NoneProcess]

----------------------------------------------------------------------------
\* Inputs.

Base == [k \in {"a", "b"} |-> IF k = "a" THEN "1" ELSE "2"]

TemplateT == [k \in {"b", "c"} |-> IF k = "b" THEN "3" ELSE "4"]

TemplateInputs ==
    { None,
      Some([n \in {"T"} |-> TemplateT]),
      Some([n \in {"BasePlugin", "T"} |->
               IF n = "BasePlugin" THEN Base ELSE TemplateT]) }

ActionInputs == { None, Some([n \in {"A1"} |-> "A1-params"]) }

OptC == [k \in {"c", "d"} |-> IF k = "c" THEN "5" ELSE "6"]

OptionInputs(n) ==
    CASE n = "p1" -> { OptC, dict_set(OptC, "Template", "T") }
      [] n = "p2" -> { dict_set(OptC, "Enabled", "False"),
                       dict_set(OptC, "Enabled", "True"),
                       dict_set(OptC, "Template", "Missing") }
      [] n = "p3" -> { [k \in {"a"} |-> "7"],
                       [k \in {"Action"} |-> "A1"],
                       [k \in {"Action"} |-> "A9"] }
      [] OTHER    -> { EmptyDict }

PluginNameInputs == { {"p1", "p2", "p3"}, {"p1", "p2", "p3", "p4"} }

NameInputs ==
    { << >>, <<"p1">>, <<"zz">>, <<"p1", "p2">>, <<"p1", "zz">>, <<"p3", "p3">> }

FilterInputs == { EmptyDict, [k \in {"c"} |-> "5"], [k \in {"c"} |-> "9"] }

QueryFilterInputs ==
    FilterInputs \cup { [k \in {"b"} |-> "2"], [k \in {"zkey"} |-> "1"],
                        [k \in {"Template"} |-> "T"] }

RunNameInputs == { << >>, <<"p1">> }

RunFilterInputs == { EmptyDict, [k \in {"b"} |-> "2"] }

MaxCalls == 3

\* The threads that call add_process at the same time.
Callers == {"t1", "t2"}

\* A thread that is not inside add_process.
NoCall == [pc |-> "idle", plugins_list |-> << >>, i |-> 0, id |-> 0, exc |-> ""]

MaxPolls == 3

----------------------------------------------------------------------------
\* The state before PluginManager(...) is called: the class attributes
\* plugins = {} and processes = [None], and the arguments of the call.

InitState ==
    /\ mgr = "new"
    /\ exc = ""
    /\ attempted = {}
    /\ stopping = FALSE
    /\ plugins = EmptyDict
    /\ processes = << NoneProcess >>
    /\ force = EmptyDict
    /\ forced_result = EmptyDict
    /\ life = EmptyDict
    /\ terminated = EmptyDict
    /\ probe = EmptyDict
    /\ sem = [g \in {"semaphore"} |-> semaphore_count]
    /\ stop_pc = "idle"
    /\ blocking = FALSE
    /\ plugins_left = {}
    /\ plugins_left_cnt = 0
    /\ polls = 0
    /\ logged = 0
    /\ handles = << >>
    /\ ret = [exc |-> "", id |-> 0]
    /\ conf_given = conf_plugins
    /\ mgr_no = 1
    /\ loaded_by = << >>
    /\ calls_before = 0
    /\ ap = [c \in Callers |-> NoCall]

Init ==
    /\ conf_templates \in TemplateInputs
    /\ conf_actions \in ActionInputs
    /\ \E names \in PluginNameInputs :
         conf_plugins \in [names -> UNION {OptionInputs(n) : n \in names}]
         /\ \A n \in names : conf_plugins[n] \in OptionInputs(n)
    /\ ctor_fails \in { {}, {"p1"} }
    /\ InitState

\* One configuration of four plugins that all load.
RunInit ==
    /\ conf_templates = Some([n \in {"BasePlugin", "T"} |->
                                 IF n = "BasePlugin" THEN Base ELSE TemplateT])
    /\ conf_actions = None
    /\ conf_plugins = [n \in {"p1", "p2", "p3", "p4"} |->
                         IF n = "p1" THEN dict_set(OptC, "Template", "T")
                         ELSE EmptyDict]
    /\ ctor_fails = {}
    /\ InitState

\* One configuration of two plugins that both load.
SmallInit ==
    /\ conf_templates = Some([n \in {"BasePlugin", "T"} |->
                                 IF n = "BasePlugin" THEN Base ELSE TemplateT])
    /\ conf_actions = None
    /\ conf_plugins = [n \in {"p1", "p2"} |->
                         IF n = "p1" THEN dict_set(OptC, "Template", "T")
                         ELSE EmptyDict]
    /\ ctor_fails = {}
    /\ InitState

----------------------------------------------------------------------------
\* PluginManager(plugins, actions, templates): __init__ and load_plugins.
\* A Plugin object starts with force = False and forced_result = None.

Construct ==
    /\ mgr = "new"
    /\ LET r == load_plugins
       IN  /\ conf_plugins' = r.conf_plugins
           /\ plugins' = r.plugins
           /\ attempted' = r.attempted
           /\ exc' = r.exc
           /\ mgr' = IF r.exc = "" THEN "ready" ELSE "failed"
           /\ loaded_by' = Append(loaded_by, r.loaded)
           /\ force' = [n \in DOMAIN r.plugins |->
                           IF n \in r.loaded THEN FALSE ELSE force[n]]
           /\ forced_result' = [n \in DOMAIN r.plugins |->
                           IF n \in r.loaded THEN "None" ELSE forced_result[n]]
           /\ life' = [n \in DOMAIN r.plugins |->
                           IF n \in r.loaded THEN "new" ELSE life[n]]
           /\ terminated' = [n \in DOMAIN r.plugins |->
                           IF n \in r.loaded THEN 0 ELSE terminated[n]]
           /\ probe' = [n \in DOMAIN r.plugins |->
                           IF n \in r.loaded THEN "idle" ELSE probe[n]]
    /\ stopping' = FALSE
    /\ UNCHANGED << confVars, mgr_no, calls_before, callVars, processes, sem,
                    stopVars, handles, ret >>

\* The configurations a second PluginManager is constructed with: one plugin
\* that loads, one whose template is missing, one named as a plugin of the
\* first manager.
SecondConfInputs ==
    { [n \in {"p3"} |-> EmptyDict],
      [n \in {"p3"} |-> dict_set(OptC, "Template", "Missing")],
      [n \in {"p1"} |-> OptC] }

\* A second PluginManager(...) in the same process, up to the call of
\* load_plugins: the instance attributes are assigned; plugins and processes
\* are attributes of the class and are the objects the first instance uses.
NewManager ==
    /\ mgr = "ready"
    /\ mgr_no = 1
    /\ mgr_no' = 2
    /\ mgr' = "new"
    /\ conf_plugins' \in SecondConfInputs
    /\ conf_given' = conf_plugins'
    /\ calls_before' = Len(handles)
    /\ stopping' = FALSE
    /\ exc' = ""
    /\ attempted' = {}
    /\ UNCHANGED << conf_actions, conf_templates, ctor_fails, loaded_by,
                    callVars, plugins, processes, plugVars, gateVars, stopVars,
                    handles, ret >>

\* start(): plugin.start() on every plugin; a process is started once.
start ==
    /\ mgr = "ready"
    /\ stop_pc = "idle"
    /\ \A n \in DOMAIN plugins : life[n] = "new"
    /\ life' = [n \in DOMAIN plugins |-> "alive"]
    /\ UNCHANGED << conf_plugins, confVars, instVars, callVars, mgr, exc, attempted, stopping,
                    plugins, processes, force, forced_result, terminated,
                    gateVars, stopVars, handles, ret >>

\* add_process(plugins=names, filter=filter).
add_process(names, filter) ==
    /\ mgr = "ready"
    /\ Len(handles) < MaxCalls
    /\ LET r == resolve(names, filter)
       IN  IF r.exc # ""
           THEN /\ ret' = [exc |-> r.exc, id |-> 0]
                /\ handles' = Append(handles, 0)
                /\ UNCHANGED << processes, force, forced_result >>
           ELSE LET procs == append_process(processes,
                                 [none |-> FALSE, plugins |-> r.plugins_list])
                    id    == new_id(procs)
                    set   == forced_by(r.plugins_list)
                IN  /\ processes' = procs
                    /\ force' = [n \in DOMAIN force |->
                                    IF n \in set THEN TRUE ELSE force[n]]
                    /\ forced_result' = [n \in DOMAIN forced_result |->
                                    IF n \in set THEN "None" ELSE forced_result[n]]
                    /\ handles' = Append(handles, id)
                    /\ ret' = [exc |-> "", id |-> id]
    /\ UNCHANGED << conf_plugins, confVars, instVars, callVars, mgr, exc, attempted, stopping,
                    plugins, life, terminated, gateVars, stopVars >>

AddProcess == \E names \in NameInputs, filter \in FilterInputs :
                 add_process(names, filter)

RunAddProcess == \E names \in RunNameInputs, filter \in RunFilterInputs :
                    add_process(names, filter)

----------------------------------------------------------------------------
\* add_process statement by statement, for calls made by several threads.

ConcNameInputs == { <<"p1">>, <<"p2">> }

\* Lines 209-232: plugins_list is built (only the registry is read) or the
\* call raises.
ap_call(c, names, filter) ==
    /\ mgr = "ready"
    /\ ap[c].pc = "idle"
    /\ LET r == resolve(names, filter)
       IN  IF r.exc # ""
           THEN /\ ap' = [ap EXCEPT ![c] = [NoCall EXCEPT !.pc = "done",
                                                          !.exc = r.exc]]
                /\ ret' = [exc |-> r.exc, id |-> 0]
                /\ handles' = Append(handles, 0)
           ELSE /\ ap' = [ap EXCEPT ![c] = [NoCall EXCEPT !.pc = "append",
                                               !.plugins_list = r.plugins_list]]
                /\ UNCHANGED << ret, handles >>
    /\ UNCHANGED << conf_plugins, confVars, instVars, mgr, exc, attempted,
                    stopping, plugins, processes, plugVars, gateVars, stopVars >>

\* Line 235: self.processes.append(process).
ap_append(c) ==
    /\ ap[c].pc = "append"
    /\ processes' = append_process(processes,
                        [none |-> FALSE, plugins |-> ap[c].plugins_list])
    /\ ap' = [ap EXCEPT ![c].pc = "id"]
    /\ UNCHANGED << conf_plugins, confVars, instVars, mgr, exc, attempted,
                    stopping, plugins, plugVars, gateVars, stopVars, handles, ret >>

\* Line 236: id = len(self.processes)-1.
ap_id(c) ==
    /\ ap[c].pc = "id"
    /\ ap' = [ap EXCEPT ![c].pc = "force", ![c].id = new_id(processes),
                        ![c].i = 1]
    /\ UNCHANGED << conf_plugins, confVars, instVars, mgr, exc, attempted,
                    stopping, plugins, processes, plugVars, gateVars, stopVars,
                    handles, ret >>

\* Line 240: plugin.force = True, for the plugin the loop is at.
ap_force(c) ==
    /\ ap[c].pc = "force"
    /\ force' = [force EXCEPT ![ap[c].plugins_list[ap[c].i]] = TRUE]
    /\ ap' = [ap EXCEPT ![c].pc = "clear"]
    /\ UNCHANGED << conf_plugins, confVars, instVars, mgr, exc, attempted,
                    stopping, plugins, processes, forced_result, life,
                    terminated, gateVars, stopVars, handles, ret >>

\* Line 241: plugin.forced_result = None; after the last plugin, line 243:
\* return id.
ap_clear(c) ==
    /\ ap[c].pc = "clear"
    /\ forced_result' =
          [forced_result EXCEPT ![ap[c].plugins_list[ap[c].i]] = "None"]
    /\ IF ap[c].i < Len(ap[c].plugins_list)
       THEN /\ ap' = [ap EXCEPT ![c].pc = "force", ![c].i = @ + 1]
            /\ UNCHANGED << handles, ret >>
       ELSE /\ ap' = [ap EXCEPT ![c].pc = "done"]
            /\ handles' = Append(handles, ap[c].id)
            /\ ret' = [exc |-> "", id |-> ap[c].id]
    /\ UNCHANGED << conf_plugins, confVars, instVars, mgr, exc, attempted,
                    stopping, plugins, processes, force, life, terminated,
                    gateVars, stopVars >>

ApCall == \E c \in Callers, names \in ConcNameInputs : ap_call(c, names, EmptyDict)

ApAppend == \E c \in Callers : ap_append(c)

ApId == \E c \in Callers : ap_id(c)

ApForce == \E c \in Callers : ap_force(c)

ApClear == \E c \in Callers : ap_clear(c)

----------------------------------------------------------------------------
\* The run loop of a Plugin: it takes a unit of its semaphore, runs its probe
\* and gives the unit back; a run made because force was set stores its
\* outcome in forced_result and clears force.

acquire(n) ==
    /\ mgr = "ready"
    /\ life[n] = "alive"
    /\ probe[n] = "idle"
    /\ sem[plugins[n].semaphore] > 0
    /\ sem' = [sem EXCEPT ![plugins[n].semaphore] = @ - 1]
    /\ probe' = [probe EXCEPT ![n] = IF force[n] THEN "forced" ELSE "probe"]
    /\ UNCHANGED << conf_plugins, confVars, instVars, callVars, mgr, exc, attempted, stopping,
                    plugins, processes, plugVars, stopVars, handles, ret >>

release(n) ==
    /\ mgr = "ready"
    /\ probe[n] # "idle"
    /\ sem' = [sem EXCEPT ![plugins[n].semaphore] = @ + 1]
    /\ probe' = [probe EXCEPT ![n] = "idle"]
    /\ IF probe[n] = "forced"
       THEN /\ forced_result' = [forced_result EXCEPT ![n] = "result"]
            /\ force' = [force EXCEPT ![n] = FALSE]
       ELSE UNCHANGED << force, forced_result >>
    /\ UNCHANGED << conf_plugins, confVars, instVars, callVars, mgr, exc, attempted, stopping,
                    plugins, processes, life, terminated, stopVars, handles, ret >>

Acquire == \E n \in DOMAIN plugins : acquire(n)

Release == \E n \in DOMAIN plugins : release(n)

----------------------------------------------------------------------------
\* stop(blocking).

\* The condition of the while loop of stop().
while_plugins_left_skipped(left) == FALSE

while_plugins_left(left) == left # {}

\* plugin.terminate() on every plugin of the registry.
terminate_all_none(t) == t

terminate_all(t) == [n \in DOMAIN plugins |-> t[n] + 1]

\* One pass over the registry: the names whose is_alive() is true, collected
\* in a list that starts empty.
poll_left_kept(left) == left \cup {n \in DOMAIN plugins : life[n] = "alive"}

poll_left(left) == {n \in DOMAIN plugins : life[n] = "alive"}

\* The test that guards the progress line.
count_changed_always(left, cnt) == TRUE

count_changed(left, cnt) == Cardinality(left) # cnt

\* stop(): the flag, terminate() on every plugin, and with blocking the
\* locals of the loop up to its first test.
stop(b) ==
    /\ mgr = "ready"
    /\ stop_pc = "idle"
    /\ stopping' = TRUE
    /\ terminated' = terminate_all(terminated)
    /\ blocking' = b
    /\ IF b
       THEN /\ plugins_left' = DOMAIN plugins
            /\ plugins_left_cnt' = Cardinality(DOMAIN plugins)
            /\ stop_pc' = IF while_plugins_left(DOMAIN plugins)
                          THEN "poll" ELSE "done"
       ELSE /\ stop_pc' = "done"
            /\ UNCHANGED << plugins_left, plugins_left_cnt >>
    /\ UNCHANGED << conf_plugins, confVars, instVars, callVars, mgr, exc, attempted, plugins,
                    processes, force, forced_result, life, gateVars, polls,
                    logged, handles, ret >>

\* One pass of the loop body: is_alive() of every plugin, the progress line,
\* and either the sleep or the end of the loop.
stop_poll ==
    /\ stop_pc = "poll"
    /\ LET left == poll_left(plugins_left)
       IN  /\ plugins_left' = left
           /\ polls' = IF polls < MaxPolls THEN polls + 1 ELSE polls
           /\ IF left # {}
              THEN /\ logged' = IF count_changed(left, plugins_left_cnt)
                                THEN logged + 1 ELSE logged
                   /\ plugins_left_cnt' = Cardinality(left)
                   /\ stop_pc' = "sleep"
              ELSE /\ stop_pc' = IF while_plugins_left(left) THEN "poll" ELSE "done"
                   /\ UNCHANGED << logged, plugins_left_cnt >>
    /\ UNCHANGED << conf_plugins, confVars, instVars, callVars, mgr, exc, attempted, stopping,
                    plugins, processes, plugVars, gateVars, blocking,
                    handles, ret >>

\* time.sleep(0.5) returns and the loop tests its condition.
stop_wake ==
    /\ stop_pc = "sleep"
    /\ stop_pc' = IF while_plugins_left(plugins_left) THEN "poll" ELSE "done"
    /\ UNCHANGED << conf_plugins, confVars, instVars, callVars, mgr, exc, attempted, stopping,
                    plugins, processes, plugVars, gateVars, blocking,
                    plugins_left, plugins_left_cnt, polls, logged, handles, ret >>

Stop == \E b \in BOOLEAN : stop(b)

\* A Plugin that was asked to terminate ends, between two probes.
exit(n) ==
    /\ mgr = "ready"
    /\ life[n] = "alive"
    /\ terminated[n] > 0
    /\ probe[n] = "idle"
    /\ life' = [life EXCEPT ![n] = "dead"]
    /\ UNCHANGED << conf_plugins, confVars, instVars, callVars, mgr, exc, attempted, stopping,
                    plugins, processes, force, forced_result, terminated,
                    gateVars, stopVars, handles, ret >>

Exit == \E n \in DOMAIN plugins : exit(n)

----------------------------------------------------------------------------
\* Specifications.

\* Construction from every configuration, and the ledger.
Next == Construct \/ AddProcess

Spec == Init /\ [][Next]_vars

\* Four loaded plugins running their probes, with forced runs.
RunNext == Construct \/ start \/ RunAddProcess \/ Acquire \/ Release

RunSpec == RunInit /\ [][RunNext]_vars

\* Four loaded plugins being started and stopped.
StopNext ==
    \/ Construct \/ start \/ Acquire \/ Release
    \/ Stop \/ stop_poll \/ stop_wake \/ Exit

StopSpec == RunInit /\ [][StopNext]_vars

\* Two loaded plugins under every operation of the manager.
AllNext ==
    \/ Construct \/ start \/ RunAddProcess \/ Acquire \/ Release
    \/ Stop \/ stop_poll \/ stop_wake \/ Exit

AllSpec == SmallInit /\ [][AllNext]_vars

\* stop() runs in a thread that is scheduled: a pass that is due is made and
\* a sleep ends.  Nothing is assumed of the plugins.
StopFairSpec ==
    RunInit /\ [][StopNext]_vars /\ WF_vars(stop_poll) /\ WF_vars(stop_wake)

\* Two threads, one add_process call each, interleaved statement by
\* statement with each other and with the run loops of two plugins.
ConcNext ==
    \/ Construct \/ start \/ Acquire \/ Release
    \/ ApCall \/ ApAppend \/ ApId \/ ApForce \/ ApClear

ConcSpec == SmallInit /\ [][ConcNext]_vars

\* Two managers constructed one after the other in one process, and the
\* add_process calls made on the one constructed last.
TwoNext == Construct \/ AddProcess \/ NewManager

TwoSpec == SmallInit /\ [][TwoNext]_vars

----------------------------------------------------------------------------
\* Properties.

Range(seq) == {seq[i] : i \in 1..Len(seq)}

InProbe == {n \in DOMAIN plugins : probe[n] # "idle"}

\* The registered plugins a call add_process(names, filter) is about.
Matching(filter) ==
    {n \in DOMAIN plugins :
        \E k \in DOMAIN filter :
            k \in DOMAIN plugins[n].params /\ plugins[n].params[k] = filter[k]}

ResolvedSet(names, filter) == (Range(names) \cap DOMAIN plugins) \cup Matching(filter)

\* C1: at most processor_count + 2 plugins are inside a probe execution at
\* the same time, and every plugin is bound to the one module-level semaphore.
C1_GateBound ==
    /\ Cardinality(InProbe) <= NPROCESSORS_ONLN + 2
    /\ \A n \in DOMAIN plugins : plugins[n].semaphore = "semaphore"
    /\ DOMAIN sem = {"semaphore"}

\* C1 witness: the gate is full while a further started plugin, with a forced
\* run outstanding, waits for a unit.
C1_Witness ==
    /\ Cardinality(InProbe) = NPROCESSORS_ONLN + 2
    /\ \E n \in DOMAIN plugins :
          probe[n] = "idle" /\ life[n] = "alive" /\ force[n]

\* C2 as stated: add_process with an empty resolved set (unknown names, a
\* filter matching nothing, or nothing given) raises NoPluginsFound and leaves
\* the length of the ledger as it was.
C2_Original ==
    [][\A names \in NameInputs, filter \in FilterInputs :
          (add_process(names, filter) /\ ResolvedSet(names, filter) = {})
          => (ret'.exc = "NoPluginsFound" /\ Len(processes') = Len(processes))]_vars

\* C2 amended: add_process with an empty resolved set raises and leaves the
\* length of the ledger as it was; the exception is NoSuchPlugin when names
\* were given (all of them unknown) and NoPluginsFound when none were given.
C2_EmptyResolved ==
    [][\A names \in NameInputs, filter \in FilterInputs :
          (add_process(names, filter) /\ ResolvedSet(names, filter) = {})
          => /\ ret'.exc = IF Len(names) > 0 THEN "NoSuchPlugin"
                           ELSE "NoPluginsFound"
             /\ Len(processes') = Len(processes)
             /\ handles'[Len(handles')] = 0]_vars

\* C2 witness: after a successful call, a call with unknown names only and a
\* call with nothing that matches have both raised; the ledger holds one record.
C2_Witness ==
    /\ Len(handles) = 3 /\ handles[1] = 1 /\ handles[2] = 0 /\ handles[3] = 0
    /\ ret.exc = "NoPluginsFound"
    /\ Len(processes) = 2

\* C3: the k-th successful add_process call returns k: the ids returned are
\* 1, 2, 3, ... and a call that raises consumes none.
C3_Handles ==
    \A i \in 1..Len(handles) :
        handles[i] # 0 =>
            handles[i] = Cardinality({j \in 1..i : handles[j] # 0})

\* C3 witness: a successful call, a failed one, a successful one.
C3_Witness == handles = <<1, 0, 2>>

\* C4 as stated: for every h outside 1..N, N the number of records created,
\* zero and negative h included, get_process(h) fails: it yields no
\* ProcessRecord (it raises, or at most hands back the None of index 0, which
\* a caller takes for "not found").
C4_Original ==
    mgr = "ready" =>
        \A h \in -(MaxCalls + 2)..(MaxCalls + 2) :
            h \notin 1..(Len(processes) - 1) =>
                LET r == get_process(h) IN r.exc # "" \/ r.val.none

\* C5: a successful add_process leaves force = True and forced_result = None
\* on every plugin of its resolved set, whatever they were, and leaves both
\* as they were on every other plugin.
C5_ForceSet ==
    [][\A names \in RunNameInputs, filter \in RunFilterInputs :
          (add_process(names, filter) /\ ret'.exc = "")
          => \A n \in DOMAIN plugins :
                IF n \in ResolvedSet(names, filter)
                THEN force'[n] /\ forced_result'[n] = "None"
                ELSE force'[n] = force[n] /\ forced_result'[n] = forced_result[n]]_vars

\* C5 witness: the last call forced p1 alone, after an earlier call whose
\* forced runs have stored their results; p1 is forced with no result while
\* a plugin outside the last call keeps its stored result.
C5_Witness ==
    /\ Len(processes) = 3
    /\ processes[3].plugins = <<"p1">>
    /\ "p1" \in Range(processes[2].plugins)
    /\ force["p1"] /\ forced_result["p1"] = "None"
    /\ \E n \in Range(processes[2].plugins) :
          ~force[n] /\ forced_result[n] = "result"

\* C6: once stop(blocking=True) has returned no plugin is alive, and its last
\* pass found none; stop(blocking=False) has returned without a single pass.
C6_StopReturns ==
    stop_pc = "done" =>
        IF blocking
        THEN plugins_left = {} /\ \A n \in DOMAIN plugins : life[n] # "alive"
        ELSE polls = 0 /\ \A n \in DOMAIN plugins : terminated[n] = 1

\* C6 witness: a blocking stop has returned after polling plugins that were
\* alive at first.
C6_Witness ==
    /\ stop_pc = "done" /\ blocking /\ polls >= 2
    /\ \A n \in DOMAIN plugins : life[n] = "dead"

\* The mapping C7 describes for plugin n: BasePlugin, overridden by the
\* template the options name, overridden by the options (as the manager
\* holds them, the Action reference replaced by the action's mapping).
ClaimParams(n) ==
    LET o == conf_plugins[n]
        b == conf_templates.d["BasePlugin"]
        t == IF "Template" \in DOMAIN o
             THEN conf_templates.d[o["Template"]] ELSE EmptyDict
    IN  [k \in DOMAIN b \cup DOMAIN t \cup DOMAIN o |->
            IF k \in DOMAIN o THEN o[k]
            ELSE IF k \in DOMAIN t THEN t[k] ELSE b[k]]

\* The configuration of the example of C7: BasePlugin = {a:1, b:2},
\* T = {b:3, c:4}, options = {c:5, d:6} with Template = T.
IsExample(n) ==
    /\ conf_templates.d["BasePlugin"] = Base
    /\ conf_templates.d["T"] = TemplateT
    /\ conf_plugins[n] = dict_set(OptC, "Template", "T")

ExampleParams ==
    [k \in {"a", "b", "c", "d"} |->
        CASE k = "a" -> "1" [] k = "b" -> "3" [] k = "c" -> "5" [] OTHER -> "6"]

\* C7 as stated: the params of every loaded plugin are BasePlugin overridden
\* by the named template overridden by the options, and the example resolves
\* to exactly {a:1, b:3, c:5, d:6}.
C7_Original ==
    mgr = "ready" =>
        \A n \in DOMAIN plugins :
            /\ plugins[n].params = ClaimParams(n)
            /\ IsExample(n) => plugins[n].params = ExampleParams

\* C7 amended: the params of every loaded plugin are BasePlugin overridden by
\* the named template overridden by the options, where the options include
\* their own Template key and, under Action, the mapping of the named action;
\* the example resolves to {a:1, b:3, c:5, d:6, Template:T}.
C7_Params ==
    mgr = "ready" =>
        \A n \in DOMAIN plugins :
            /\ plugins[n].params = ClaimParams(n)
            /\ "Action" \in DOMAIN plugins[n].params =>
                  /\ conf_actions.isdict
                  /\ \E a \in DOMAIN conf_actions.d :
                        plugins[n].params["Action"] = conf_actions.d[a]
            /\ IsExample(n) =>
                  plugins[n].params = dict_set(ExampleParams, "Template", "T")

\* C7 witness: the plugin of the example is loaded, and so is one with an
\* Action.
C7_Witness ==
    /\ mgr = "ready"
    /\ \E n \in DOMAIN plugins : IsExample(n)
    /\ \E n \in DOMAIN plugins : "Action" \in DOMAIN plugins[n].params

ConfDisabled ==
    {n \in DOMAIN conf_plugins :
        "Enabled" \in DOMAIN conf_plugins[n] /\ conf_plugins[n]["Enabled"] = "False"}

\* C8: in every state after construction an entry with Enabled = False is not
\* in the registry: get_plugin raises NoSuchPlugin for it, no get_plugins
\* result holds it and no record of the ledger holds it.
C8_Disabled ==
    mgr # "new" =>
        \A n \in ConfDisabled :
            /\ n \notin DOMAIN plugins
            /\ get_plugin(n).exc = "NoSuchPlugin"
            /\ \A f \in QueryFilterInputs : n \notin Range(get_plugins(f).list)
            /\ \A i \in 1..Len(processes) : n \notin Range(processes[i].plugins)

\* C8 witness: a manager with a disabled entry has been built and has taken
\* forced runs by a filter that the disabled entry's options would match.
C8_Witness ==
    /\ mgr = "ready"
    /\ ConfDisabled # {}
    /\ \E i \in 1..Len(processes) : Len(processes[i].plugins) >= 2
    /\ \A n \in ConfDisabled : conf_plugins[n]["c"] = "5"
    /\ Matching([k \in {"c"} |-> "5"]) # {}

BaseAbsent ==
    ~conf_templates.isdict \/ "BasePlugin" \notin DOMAIN conf_templates.d

\* C9: without a BasePlugin template the construction raises
\* BasePluginTemplateNotFound, no entry has been attempted and no plugin is
\* loaded.
C9_BaseMissing ==
    (mgr # "new" /\ BaseAbsent) =>
        /\ mgr = "failed"
        /\ exc = "BasePluginTemplateNotFound"
        /\ attempted = {}
        /\ DOMAIN plugins = {}

\* C9 witness: construction has failed on a templates mapping that lacks
\* BasePlugin, with entries configured that would otherwise load.
C9_Witness ==
    /\ mgr = "failed"
    /\ conf_templates.isdict /\ BaseAbsent
    /\ \E n \in DOMAIN conf_plugins : ~("Template" \in DOMAIN conf_plugins[n])

NoDuplicates(seq) == \A i, j \in 1..Len(seq) : i # j => seq[i] # seq[j]

\* C10: get_plugins({key: value}) returns, once each, the registered plugins
\* whose params hold key with that value and no other; get_plugins without a
\* filter returns the registry, every registered plugin.
C10_Filter ==
    mgr = "ready" =>
        /\ \A f \in QueryFilterInputs \ {EmptyDict} :
              LET r == get_plugins(f)
                  k == CHOOSE x \in DOMAIN f : TRUE
              IN  /\ ~r.isdict
                  /\ NoDuplicates(r.list)
                  /\ Range(r.list) =
                        {n \in DOMAIN plugins :
                            /\ k \in DOMAIN plugins[n].params
                            /\ plugins[n].params[k] = f[k]}
        /\ LET r == get_plugins(EmptyDict)
           IN  r.isdict /\ NoDuplicates(r.list) /\ Range(r.list) = DOMAIN plugins

\* C10 witness: a filter selects some but not all registered plugins, and a
\* registered plugin holds the filter's key with another value.
C10_Witness ==
    /\ mgr = "ready"
    /\ \E f \in QueryFilterInputs \ {EmptyDict} :
          LET k == CHOOSE x \in DOMAIN f : TRUE
          IN  /\ Matching(f) # {}
              /\ Matching(f) # DOMAIN plugins
              /\ \E n \in DOMAIN plugins :
                    k \in DOMAIN plugins[n].params /\ plugins[n].params[k] # f[k]

\* C11: the ledger is append-only: no step of any operation shortens it or
\* changes an entry it holds, and get_process of every id add_process has
\* returned yields the same record, with the same plugins, ever after.
C11_AppendOnly ==
    [][/\ Len(processes') >= Len(processes)
       /\ \A i \in 1..Len(processes) : processes'[i] = processes[i]
       /\ \A i \in 1..Len(handles) :
             handles[i] # 0 =>
                /\ get_process(handles[i]).exc = ""
                /\ ~get_process(handles[i]).val.none
                /\ get_process(handles[i])' = get_process(handles[i])]_vars

\* C11 witness: two records are in the ledger while the plugins have run
\* forced probes and a blocking stop has returned.
C11_Witness ==
    /\ Len(processes) = 3
    /\ stop_pc = "done" /\ blocking
    /\ \E n \in DOMAIN plugins : forced_result[n] = "result"

\* The entries of the given configuration that are not disabled and whose
\* template, action and construction all succeed.
Loadable ==
    {n \in DOMAIN conf_given :
        LET o == conf_given[n]
        IN  /\ ~("Enabled" \in DOMAIN o /\ o["Enabled"] = "False")
            /\ "Template" \in DOMAIN o =>
                  conf_templates.isdict /\ o["Template"] \in DOMAIN conf_templates.d
            /\ "Action" \in DOMAIN o =>
                  conf_actions.isdict /\ o["Action"] \in DOMAIN conf_actions.d
            /\ n \notin ctor_fails}

\* C12: with BasePlugin present, load_plugins reaches every configured entry
\* whatever failed before it, the registry holds exactly the entries that are
\* not disabled and resolve and construct, and NoRunningPlugins is raised
\* exactly when there is no such entry.
C12_LoadAll ==
    (mgr # "new" /\ ~BaseAbsent) =>
        /\ attempted = DOMAIN conf_given
        /\ DOMAIN plugins = Loadable
        /\ loaded_by = << Loadable >>
        /\ (exc = "NoRunningPlugins") <=> (Loadable = {})
        /\ (mgr = "failed") <=> (Loadable = {})
        /\ exc \in {"", "NoRunningPlugins"}

\* C12 witness: an entry whose constructor raises, one whose template is
\* missing and one whose action is missing have all been attempted in one
\* batch, and another entry of that batch is loaded.
C12_Witness ==
    /\ mgr = "ready"
    /\ "p1" \in ctor_fails
    /\ "Template" \in DOMAIN conf_given["p2"]
    /\ "Action" \in DOMAIN conf_given["p3"]
    /\ attempted = {"p1", "p2", "p3", "p4"}
    /\ DOMAIN plugins = {"p4"}

\* C13 as stated: the record a successful add_process(names, filter) appends
\* holds the union of the named plugins and the plugins the filter matches:
\* each of them, nothing else, and each once.
C13_Original ==
    [][\A names \in NameInputs, filter \in FilterInputs :
          (add_process(names, filter) /\ ret'.exc = "")
          => LET rec == processes'[Len(processes')].plugins
             IN  /\ Range(rec) = ResolvedSet(names, filter)
                 /\ NoDuplicates(rec)]_vars

\* C14: from the stop(blocking) call on, in either mode, the stopping flag is
\* set and every registered plugin has received terminate() exactly once;
\* before the call none has, and no polling pass precedes the requests.
C14_Terminate ==
    /\ stop_pc = "idle" =>
          /\ ~stopping
          /\ polls = 0
          /\ \A n \in DOMAIN terminated : terminated[n] = 0
    /\ stop_pc # "idle" =>
          /\ stopping
          /\ DOMAIN terminated = DOMAIN plugins
          /\ \A n \in DOMAIN plugins : terminated[n] = 1

\* C14 witness: a blocking stop has issued its requests to plugins that are
\* alive and has not polled yet.
C14_Witness ==
    /\ stop_pc = "poll" /\ blocking /\ polls = 0
    /\ \A n \in DOMAIN plugins : life[n] = "alive" /\ terminated[n] = 1

\* C15: a polling pass logs a progress line exactly when the number of
\* plugins it finds alive is not zero and differs from the number the pass
\* before found (for the first pass: from the number of registered plugins);
\* a pass that finds some alive leads to the sleep, and the sleep to a
\* further pass.
C15_ProgressLog ==
    [][/\ (stop_pc = "poll" /\ stop_pc' # "poll") =>
             LET alive == {n \in DOMAIN plugins : life[n] = "alive"}
                 count == Cardinality(alive)
                 before == Cardinality(plugins_left)
             IN  /\ logged' = IF count # 0 /\ count # before
                              THEN logged + 1 ELSE logged
                 /\ stop_pc' = IF count # 0 THEN "sleep" ELSE "done"
                 /\ plugins_left' = alive
       /\ (stop_pc = "sleep" /\ stop_pc' # "sleep") =>
             (stop_pc' = "poll" /\ logged' = logged)
       /\ stop_pc \notin {"poll", "sleep"} => logged' = logged]_vars

\* C15 witness: three passes have been made with plugins alive and one line
\* has been logged: the first pass found all alive and a later pass repeated
\* the count of the pass before it.
C15_Witness ==
    /\ polls = 3 /\ logged = 1
    /\ stop_pc = "sleep"
    /\ Cardinality(plugins_left) = 2

NoneAlive == \A n \in DOMAIN plugins : life[n] # "alive"

\* C16: if from some time on no plugin is alive, a stop(blocking=True) that
\* is polling returns; a first pass that finds none alive returns without a
\* sleep; and while a plugin is alive a blocking stop has not returned, for
\* however many passes.
C16_StopTerminates ==
    /\ (<>[]NoneAlive) => [](stop_pc \in {"poll", "sleep"} => <>(stop_pc = "done"))
    /\ [][(stop_pc = "poll" /\ polls = 0 /\ NoneAlive /\ stop_pc' # "poll")
             => stop_pc' = "done"]_vars
    /\ []((blocking /\ stop_pc # "idle" /\ ~NoneAlive) => stop_pc # "done")

\* C16 witness: a blocking stop has returned from its first pass, which found
\* no plugin alive, without a sleep.
C16_Witness ==
    /\ stop_pc = "done" /\ blocking /\ polls = 1
    /\ NoneAlive

Returned(c) == ap[c].pc = "done" /\ ap[c].exc = ""

\* C17 as stated: whatever the interleaving of add_process with the run loop
\* of a plugin, no plugin of a call that has returned is left with force
\* false and no forced result: either its forced run is still due or the
\* result of that run is there.
C17_Original ==
    \A c \in Callers :
        Returned(c) =>
            \A n \in Range(ap[c].plugins_list) :
                force[n] \/ forced_result[n] = "result"

\* C18 as stated: calls that run at the same time return distinct ids, and
\* get_process of the id a call returned is the record that call appended.
C18_Original ==
    /\ \A c1, c2 \in Callers :
          (c1 # c2 /\ Returned(c1) /\ Returned(c2)) => ap[c1].id # ap[c2].id
    /\ \A c \in Callers :
          Returned(c) =>
              get_process(ap[c].id).val.plugins = ap[c].plugins_list

Unknown(names) == {i \in 1..Len(names) : names[i] \notin DOMAIN plugins}

\* C19: an add_process call that raises changes nothing of the manager: the
\* ledger, every plugin's force and forced_result, the registry and the stop
\* flag are as before. It raises NoSuchPlugin as soon as one given name is
\* unknown, whatever the other names and the filter resolve to, and
\* NoPluginsFound when no name is unknown and nothing is resolved.
C19_FailureFrame ==
    [][\A names \in NameInputs, filter \in FilterInputs :
          add_process(names, filter) =>
             /\ (Unknown(names) # {}) => ret'.exc = "NoSuchPlugin"
             /\ (Unknown(names) = {} /\ ResolvedSet(names, filter) = {})
                   => ret'.exc = "NoPluginsFound"
             /\ ret'.exc # "" =>
                   /\ processes' = processes
                   /\ force' = force
                   /\ forced_result' = forced_result
                   /\ plugins' = plugins
                   /\ stopping' = stopping]_vars

\* C19 witness: a call that forced p1 and p2 was followed by two calls that
\* raised, the last with NoSuchPlugin although a plugin of the first call is
\* known and matches the filter c = 5; the ledger holds the one record and the
\* forced runs are still due.
C19_Witness ==
    /\ handles = <<1, 0, 0>>
    /\ ret.exc = "NoSuchPlugin"
    /\ Len(processes) = 2
    /\ processes[2].plugins = <<"p1", "p2">>
    /\ force["p1"] /\ force["p2"]
    /\ Matching([k \in {"c"} |-> "5"]) # {}

\* C20 as stated: once a second manager has been constructed, no plugin that
\* only the first manager loaded is found by the second's get_plugin, a second
\* manager that loaded nothing has raised, and the ids its add_process calls
\* return count from 1 whatever was called on the first manager.
C20_Original ==
    (mgr_no = 2 /\ mgr # "new") =>
        /\ \A n \in loaded_by[1] \ loaded_by[2] :
              get_plugin(n).exc = "NoSuchPlugin"
        /\ loaded_by[2] = {} => exc = "NoRunningPlugins"
        /\ \A i \in (calls_before + 1)..Len(handles) :
              handles[i] # 0 =>
                 handles[i] =
                    Cardinality({j \in (calls_before + 1)..i : handles[j] # 0})

====
